---- MODULE Spec2Model ----
(***************************************************************************)
(* Event Master Planner (streamlit_app.py): a multi-page form over a      *)
(* Google spreadsheet.  Every script run of a session loads the           *)
(* worksheet(s) of the selected page through load_data, renders an        *)
(* editor or a form, and writes the whole table back through save_data     *)
(* when the page's button was pressed.                                     *)
(*                                                                         *)
(* Gateway (conn.read / conn.update) assumptions: a read returns the cells *)
(* typed one by one (number, text, blank -> NaN); an update replaces the   *)
(* worksheet atomically or raises and leaves it as it was.                 *)
(***************************************************************************)
EXTENDS Integers, Sequences, FiniteSets, TLC

VARIABLES
    ws,       \* the spreadsheet: worksheet name -> worksheet content
    menu,     \* session -> page selected in the sidebar
    pc,       \* session -> position of its current script run
    df,       \* session -> worksheet name -> table load_data returned in this run
    edits,    \* session -> widget state of the page's data editor
    edited,   \* session -> table st.data_editor returned in this run
    button,   \* session -> value the page's button returned in this run
    arg,      \* session -> table handed to save_data in this run
    gw,       \* session -> how conn.update answered in this run, and how often it was called
    ui,       \* session -> elements shown by this run
    out,      \* session -> numbers computed by this run
    budget,   \* session -> what the Budget page computed in this run
    base,     \* session -> worksheet content seen by the loads of this run
    writes    \* number of conn.update calls that went through

vars == <<ws, menu, pc, df, edits, edited, button, arg, gw, ui, out, budget, base, writes>>

Range(f) == {f[i] : i \in DOMAIN f}

(***************************************************************************)
(* Bounds                                                                  *)
(***************************************************************************)
MaxRows == 2      \* rows a table may hold
MaxWrites == 2    \* writes to the spreadsheet in one behaviour

Sessions == {"s1", "s2"}

(***************************************************************************)
(* Cells.  A worksheet holds numbers, texts and blanks; a DataFrame holds  *)
(* numbers, texts, NaN (a blank as read) and None (a column load_data      *)
(* added, a row the editor added).                                         *)
(***************************************************************************)
Num(x) == [k |-> "num", n |-> x, s |-> ""]
Txt(t) == [k |-> "str", n |-> 0, s |-> t]
PyNone == [k |-> "None", n |-> 0, s |-> ""]
NaN == [k |-> "NaN", n |-> 0, s |-> ""]
Blank == [k |-> "blank", n |-> 0, s |-> ""]

IsNA(c) == c.k \in {"None", "NaN"}

(***************************************************************************)
(* Tables                                                                  *)
(***************************************************************************)
Sheet(cols, rows) == [exists |-> TRUE, cols |-> cols, rows |-> rows]
NoSheet == [exists |-> FALSE, cols |-> <<>>, rows |-> <<>>]

DataFrame(cols, rows) == [st |-> "df", cols |-> cols, rows |-> rows]
NoneDF == [st |-> "None", cols |-> <<>>, rows |-> <<>>]
Unset == [st |-> "unset", cols |-> <<>>, rows |-> <<>>]

\* the row holding vals[i] in column cols[i]
Row(cols, vals) ==
    [c \in Range(cols) |-> vals[CHOOSE i \in 1..Len(cols) : cols[i] = c]]

\* DataFrame.empty: no rows or no columns
empty(d) == Len(d.rows) = 0 \/ Len(d.cols) = 0

\* conn.read of an existing worksheet: a blank cell is read as NaN
conn_read(sheet) ==
    DataFrame(sheet.cols,
              [i \in 1..Len(sheet.rows) |->
                  [c \in DOMAIN sheet.rows[i] |->
                      IF sheet.rows[i][c] = Blank THEN NaN ELSE sheet.rows[i][c]]])

\* conn.update: the worksheet becomes the table; NaN, None and the empty text
\* are written as blanks
conn_update(d) ==
    Sheet(d.cols,
          [i \in 1..Len(d.rows) |->
              [c \in DOMAIN d.rows[i] |->
                  IF IsNA(d.rows[i][c]) \/ d.rows[i][c] = Txt("")
                  THEN Blank ELSE d.rows[i][c]]])

\* df[col] = None
AddColumn(d, col) ==
    DataFrame(Append(d.cols, col),
              [i \in 1..Len(d.rows) |->
                  [c \in DOMAIN d.rows[i] \cup {col} |->
                      IF c = col THEN PyNone ELSE d.rows[i][c]]])

\* FillMissing without its test "col not in df.columns"
RECURSIVE FillMissing_overwrite(_, _)
FillMissing_overwrite(d, required) ==
    IF required = <<>> THEN d
    ELSE FillMissing_overwrite(
             IF Head(required) \in Range(d.cols)
             THEN DataFrame(d.cols, [i \in 1..Len(d.rows) |->
                                        [d.rows[i] EXCEPT ![Head(required)] = PyNone]])
             ELSE AddColumn(d, Head(required)),
             Tail(required))

\* for col in required_columns: if col not in df.columns: df[col] = None
RECURSIVE FillMissing(_, _)
FillMissing(d, required) ==
    IF required = <<>> THEN d
    ELSE FillMissing(IF Head(required) \in Range(d.cols) THEN d
                     ELSE AddColumn(d, Head(required)),
                     Tail(required))

\* load_data returning df[required_columns] instead of df
load_data_reindex(sheets, tab_name, required_columns) ==
    IF ~sheets[tab_name].exists THEN NoneDF
    ELSE LET d == conn_read(sheets[tab_name])
         IN IF empty(d) THEN DataFrame(required_columns, <<>>)
            ELSE LET f == FillMissing(d, required_columns)
                 IN DataFrame(required_columns,
                              [i \in 1..Len(f.rows) |->
                                  [c \in Range(required_columns) |-> f.rows[i][c]]])

load_data(sheets, tab_name, required_columns) ==
    IF ~sheets[tab_name].exists THEN NoneDF
    ELSE LET d == conn_read(sheets[tab_name])
         IN IF empty(d) THEN DataFrame(required_columns, <<>>)
            ELSE FillMissing(d, required_columns)

\* save_data calling conn.update a second time when the first call raised
save_data_retry(sheets, tab_name, d, ok) ==
    [ws |-> [sheets EXCEPT ![tab_name] = conn_update(d)],
     shown |-> {"toast"}, raised |-> FALSE, calls |-> IF ok THEN 1 ELSE 2]

\* save_data adding the rows under the rows the worksheet holds
save_data_append(sheets, tab_name, d, ok) ==
    IF ok THEN [ws |-> [sheets EXCEPT ![tab_name] =
                           Sheet(conn_update(d).cols, @.rows \o conn_update(d).rows)],
                shown |-> {"toast"}, raised |-> FALSE, calls |-> 1]
    ELSE [ws |-> sheets, shown |-> {"save_error"}, raised |-> FALSE, calls |-> 1]

\* save_data: what it leaves behind; ok is whether conn.update went through
save_data(sheets, tab_name, d, ok) ==
    IF ok THEN [ws |-> [sheets EXCEPT ![tab_name] = conn_update(d)],
                shown |-> {"toast"}, raised |-> FALSE, calls |-> 1]
    ELSE [ws |-> sheets, shown |-> {"save_error"}, raised |-> FALSE, calls |-> 1]

(***************************************************************************)
(* Pages (the sidebar radio) and the worksheets they load                  *)
(***************************************************************************)
Pages == {"Event", "Budget", "Guests", "Food & Drinks", "Games", "Decoration",
          "Gallery", "Invitations", "Feedback"}

Tabs == {"Food", "Decor", "Budget_Config", "Guests", "Games", "Feedback"}

EditorPages == {"Guests", "Food & Drinks", "Games", "Decoration"}

\* the worksheet an editor page or the Feedback page works on
TabOf(page) ==
    CASE page = "Guests" -> "Guests"
      [] page = "Food & Drinks" -> "Food"
      [] page = "Games" -> "Games"
      [] page = "Decoration" -> "Decor"
      [] page = "Feedback" -> "Feedback"
      [] page = "Budget" -> "Budget_Config"

\* the worksheets a page loads
PageTabs(page) ==
    IF page = "Budget" THEN {"Food", "Decor", "Budget_Config"}
    ELSE IF page \in EditorPages \cup {"Feedback"} THEN {TabOf(page)}
    ELSE {}

\* the required_columns a page passes to load_data for a worksheet
RequiredCols(page, tab) ==
    CASE page = "Budget" /\ tab = "Food" -> <<"Total">>
      [] page = "Budget" /\ tab = "Decor" -> <<"Cost">>
      [] page = "Budget" /\ tab = "Budget_Config" -> <<"Category", "Limit", "Manual_Cost">>
      [] page = "Guests" -> <<"Family Name", "Adults", "Children", "Ages", "Dietary", "RSVP">>
      [] page = "Food & Drinks" -> <<"Item", "Owner", "Sourcing", "Price", "Quantity", "Total">>
      [] page = "Games" -> <<"Game Name", "Rules", "Props Needed", "Winner">>
      [] page = "Decoration" -> <<"Item", "Theme", "Status", "Cost">>
      [] page = "Feedback" -> <<"Name", "Rating", "Comments">>

(***************************************************************************)
(* st.data_editor(df, num_rows="dynamic").  The widget keeps the user's    *)
(* edits in the session, here as the table they make of the table passed  *)
(* in; its identity includes the data it was given, so the edits live as   *)
(* long as the table passed in stays the same.                             *)
(***************************************************************************)
SetCell(row, col, val) == [op |-> "set", row |-> row, col |-> col, val |-> val]
AddRow == [op |-> "add", row |-> 0, col |-> "", val |-> PyNone]
DelRow(row) == [op |-> "del", row |-> row, col |-> "", val |-> PyNone]

NoEdits == [on |-> Unset, result |-> Unset]

\* conn.update in a run: not called, went through, or raised
NotCalled == [result |-> "none", calls |-> 0]
Answer(ok, calls) == [result |-> IF ok THEN "ok" ELSE "raised", calls |-> calls]

DropAt(seq, i) == [j \in 1..(Len(seq) - 1) |-> IF j < i THEN seq[j] ELSE seq[j + 1]]

ApplyEdit(d, e) ==
    CASE e.op = "set" ->
           IF e.row \in 1..Len(d.rows) /\ e.col \in Range(d.cols)
           THEN DataFrame(d.cols, [d.rows EXCEPT ![e.row][e.col] = e.val])
           ELSE d
      [] e.op = "add" ->
           DataFrame(d.cols, Append(d.rows, [c \in Range(d.cols) |-> PyNone]))
      [] e.op = "del" ->
           IF e.row \in 1..Len(d.rows)
           THEN DataFrame(d.cols, DropAt(d.rows, e.row))
           ELSE d

\* what the widget returns when it is given table d
data_editor(d, w) == IF w.on = d THEN w.result ELSE d

(***************************************************************************)
(* Numeric coercion                                                        *)
(***************************************************************************)
Numerals == <<"0", "1", "2", "3", "4", "5", "6", "7", "8", "9">>

\* pd.to_numeric(x, errors='coerce') of one cell: a number or NaN
to_numeric(c) ==
    CASE c.k = "num" -> c
      [] c.k = "str" ->
           IF \E i \in 1..Len(Numerals) : Numerals[i] = c.s
           THEN Num((CHOOSE i \in 1..Len(Numerals) : Numerals[i] = c.s) - 1)
           ELSE NaN
      [] OTHER -> NaN

RECURSIVE SumSeq(_)
SumSeq(q) == IF q = <<>> THEN 0 ELSE Head(q) + SumSeq(Tail(q))

\* pd.to_numeric(df[col], errors='coerce').sum()  (NaN skipped, which is what
\* .fillna(0) before the sum gives as well)
CoercedSum(d, col) ==
    SumSeq([i \in 1..Len(d.rows) |->
               IF to_numeric(d.rows[i][col]).k = "num"
               THEN to_numeric(d.rows[i][col]).n ELSE 0])

\* the loop writing 0 where it does not compute a total
CalculateTotals_zeroing(d) ==
    DataFrame(d.cols,
              [i \in 1..Len(d.rows) |->
                  LET q == to_numeric(d.rows[i]["Quantity"])
                      p == to_numeric(d.rows[i]["Price"])
                  IN IF q.k = "num" /\ q.n > 0 /\ p.k = "num" /\ p.n > 0
                     THEN [d.rows[i] EXCEPT !["Total"] = Num(q.n * p.n)]
                     ELSE [d.rows[i] EXCEPT !["Total"] = Num(0)]])

\* Food page, "Calculate Totals & Save": the loop over edited_food.iterrows()
CalculateTotals(d) ==
    DataFrame(d.cols,
              [i \in 1..Len(d.rows) |->
                  LET q == to_numeric(d.rows[i]["Quantity"])
                      p == to_numeric(d.rows[i]["Price"])
                  IN IF q.k = "num" /\ q.n > 0 /\ p.k = "num" /\ p.n > 0
                     THEN [d.rows[i] EXCEPT !["Total"] = Num(q.n * p.n)]
                     ELSE d.rows[i]])

\* the numbers an editor page shows under the editor
PageMetrics(page, d) ==
    CASE page = "Guests" ->
           [adults |-> CoercedSum(d, "Adults"), kids |-> CoercedSum(d, "Children"),
            total |-> CoercedSum(d, "Adults") + CoercedSum(d, "Children")]
      [] page = "Food & Drinks" ->
           [adults |-> 0, kids |-> 0, total |-> CoercedSum(d, "Total")]
      [] page = "Decoration" ->
           [adults |-> 0, kids |-> 0, total |-> CoercedSum(d, "Cost")]
      [] OTHER -> [adults |-> 0, kids |-> 0, total |-> 0]

NoOut == [adults |-> 0, kids |-> 0, total |-> 0]

(***************************************************************************)
(* Budget page.  A computed value is a number, NaN, a text, or the         *)
(* exception that ended the computation.                                   *)
(***************************************************************************)
Raise == [k |-> "raise", n |-> 0, s |-> ""]

\* df[col].sum() as pandas computes it, with no coercion: NaN and None are
\* skipped; a column of texts only is concatenated into a text; a text next
\* to a number, NaN or None raises TypeError
RawSum(d, col) ==
    LET cells == [i \in 1..Len(d.rows) |-> d.rows[i][col]]
    IN IF \A i \in DOMAIN cells : cells[i].k # "str"
       THEN Num(SumSeq([i \in DOMAIN cells |->
                           IF cells[i].k = "num" THEN cells[i].n ELSE 0]))
       ELSE IF \A i \in DOMAIN cells : cells[i].k = "str"
            THEN Txt("concatenated")
            ELSE Raise

\* df['Total'].sum() if not df.empty else 0.0; on None, df.empty raises
\* AttributeError
Actual(d, col) ==
    IF d = NoneDF THEN Raise
    ELSE IF ~empty(d) THEN RawSum(d, col) ELSE Num(0)

\* the table the Budget page seeds when Budget_Config has no rows
SeedBudget ==
    LET cols == <<"Category", "Limit", "Manual_Cost">>
    IN DataFrame(cols,
                 <<Row(cols, <<Txt("Food & Drinks"), Num(800), Num(0)>>),
                   Row(cols, <<Txt("Venue"), Num(500), Num(0)>>),
                   Row(cols, <<Txt("Decoration"), Num(300), Num(0)>>),
                   Row(cols, <<Txt("Games"), Num(100), Num(0)>>),
                   Row(cols, <<Txt("Invitations"), Num(50), Num(0)>>)>>)

\* float(x) of one cell
float(c) ==
    CASE c.k = "num" -> c
      [] c.k = "NaN" -> NaN
      [] c.k = "str" -> IF to_numeric(c).k = "num" THEN to_numeric(c) ELSE Raise
      [] OTHER -> Raise

\* row = edited_budget[edited_budget['Category'] == cat];
\* float(row[field].iloc[0]) if not row.empty else 0.0
Lookup(edited_budget, cat, field) ==
    LET hits == SelectSeq(edited_budget.rows, LAMBDA r : r["Category"] = Txt(cat))
    IN IF hits # <<>> THEN float(hits[1][field]) ELSE Num(0)

get_limit(edited_budget, cat) == Lookup(edited_budget, cat, "Limit")

get_manual(edited_budget, cat) == Lookup(edited_budget, cat, "Manual_Cost")

Ratio(num, den) == [k |-> "ratio", num |-> num, den |-> den]
NoRatio(kind) == [k |-> kind, num |-> 0, den |-> 1]

\* ratio = min(current / limit, 1.0) if limit > 0 else 0
progress_ratio(current, limit) ==
    IF limit.k = "num" /\ limit.n > 0
    THEN CASE current.k = "num" ->
                IF current.n > limit.n THEN Ratio(1, 1) ELSE Ratio(current.n, limit.n)
           [] current.k = "NaN" -> NoRatio("NaN")
           [] OTHER -> NoRatio("raise")
    ELSE Ratio(0, 1)

InUnit(r) == r.k = "ratio" /\ 0 <= r.num /\ r.num <= r.den

\* show_bar: the ratio it computed and whether it raised (the division, the
\* two-decimal format of a text, or st.progress refusing a value outside [0, 1])
show_bar(current, limit) ==
    LET ratio == progress_ratio(current, limit)
    IN [ratio |-> ratio,
        raised |-> current.k = "str" \/ ~InUnit(ratio),
        warning |-> current.k = "num" /\ limit.k = "num" /\ current.n > limit.n]

\* a + b of two computed values
Plus(a, b) ==
    CASE a.k = "num" /\ b.k = "num" -> Num(a.n + b.n)
      [] a.k \in {"num", "NaN"} /\ b.k \in {"num", "NaN"} -> NaN
      [] OTHER -> Raise

Minus(a, b) ==
    CASE a.k = "num" /\ b.k = "num" -> Num(a.n - b.n)
      [] a.k \in {"num", "NaN"} /\ b.k \in {"num", "NaN"} -> NaN
      [] OTHER -> Raise

NoBudget == [food |-> Raise, decor |-> Raise, limits |-> <<>>, bars |-> <<>>,
             total_limit |-> Raise, rem |-> Raise]

\* column 2 of the Budget page: the three bars, then the remaining budget;
\* the first exception ends the run
Overview(edited_budget, food, decor) ==
    LET l1 == get_limit(edited_budget, "Food & Drinks")
        b1 == show_bar(food, l1)
        l2 == get_limit(edited_budget, "Decoration")
        b2 == show_bar(decor, l2)
        venue_cost == get_manual(edited_budget, "Venue")
        l3 == get_limit(edited_budget, "Venue")
        b3 == show_bar(venue_cost, l3)
        total_limit == RawSum(edited_budget, "Limit")
        g == get_manual(edited_budget, "Games")
        v == get_manual(edited_budget, "Invitations")
        total_spent == IF g.k = "raise" \/ v.k = "raise" THEN Raise
                       ELSE Plus(Plus(Plus(Plus(food, decor), venue_cost), g), v)
        rem == IF total_limit.k \in {"raise", "str"} \/ total_spent.k = "raise"
               THEN Raise ELSE Minus(total_limit, total_spent)
        base_out == [food |-> food, decor |-> decor, limits |-> <<>>, bars |-> <<>>,
                     total_limit |-> Raise, rem |-> Raise]
    IN IF l1.k = "raise" THEN [base_out EXCEPT !.limits = <<l1>>]
       ELSE IF b1.raised THEN [base_out EXCEPT !.limits = <<l1>>, !.bars = <<b1>>]
       ELSE IF l2.k = "raise" THEN [base_out EXCEPT !.limits = <<l1, l2>>, !.bars = <<b1>>]
       ELSE IF b2.raised THEN [base_out EXCEPT !.limits = <<l1, l2>>, !.bars = <<b1, b2>>]
       ELSE IF venue_cost.k = "raise"
            THEN [base_out EXCEPT !.limits = <<l1, l2, venue_cost>>, !.bars = <<b1, b2>>]
       ELSE IF l3.k = "raise"
            THEN [base_out EXCEPT !.limits = <<l1, l2, venue_cost, l3>>, !.bars = <<b1, b2>>]
       ELSE [base_out EXCEPT !.limits = <<l1, l2, venue_cost, l3>>,
                             !.bars = <<b1, b2, b3>>,
                             !.total_limit = IF b3.raised THEN Raise ELSE total_limit,
                             !.rem = IF b3.raised THEN Raise ELSE rem]

Crashed(o) ==
    \/ o.food.k = "raise" \/ o.decor.k = "raise"
    \/ \E i \in DOMAIN o.limits : o.limits[i].k = "raise"
    \/ \E i \in DOMAIN o.bars : o.bars[i].raised
    \/ o.total_limit.k = "raise" \/ o.rem.k = "raise"

(***************************************************************************)
(* A script run.  Load is the run's gateway reads; the rest of the page    *)
(* follows in a second step, so that other sessions' reads and writes can  *)
(* fall between a run's load and its save.                                 *)
(***************************************************************************)
Resting(s) == pc[s] \in {"idle", "done", "stopped", "crashed"}

Load(s) ==
    /\ Resting(s)
    /\ PageTabs(menu[s]) # {}
    /\ df' = [df EXCEPT ![s] =
                [t \in Tabs |-> IF t \in PageTabs(menu[s])
                                THEN load_data(ws, t, RequiredCols(menu[s], t))
                                ELSE Unset]]
    /\ base' = [base EXCEPT ![s] = ws]
    /\ pc' = [pc EXCEPT ![s] = "loaded"]
    /\ ui' = [ui EXCEPT ![s] = {}]
    /\ button' = [button EXCEPT ![s] = FALSE]
    /\ arg' = [arg EXCEPT ![s] = Unset]
    /\ gw' = [gw EXCEPT ![s] = NotCalled]
    /\ edited' = [edited EXCEPT ![s] = Unset]
    /\ out' = [out EXCEPT ![s] = NoOut]
    /\ budget' = [budget EXCEPT ![s] = NoBudget]
    /\ UNCHANGED <<ws, menu, edits, writes>>

\* Guests, Food & Drinks, Games, Decoration: the page after its load
EditorPage(s, clicked, ok) ==
    /\ pc[s] = "loaded"
    /\ menu[s] \in EditorPages
    /\ LET tab == TabOf(menu[s])
           d == df[s][tab]
       IN IF d = NoneDF
          THEN /\ ui' = [ui EXCEPT ![s] = {"error"}]
               /\ pc' = [pc EXCEPT ![s] = "stopped"]
               /\ UNCHANGED <<ws, edits, edited, button, arg, gw, out, writes>>
          ELSE LET e == data_editor(d, edits[s])
                   t == IF clicked /\ menu[s] = "Food & Drinks"
                        THEN CalculateTotals(e) ELSE e
                   r == save_data(ws, tab, t, ok)
               IN /\ clicked => writes < MaxWrites
                  /\ edits' = [edits EXCEPT ![s] = [on |-> d, result |-> e]]
                  /\ edited' = [edited EXCEPT ![s] = t]
                  /\ button' = [button EXCEPT ![s] = clicked]
                  /\ IF clicked
                     THEN /\ ws' = r.ws
                          /\ writes' = IF ok THEN writes + 1 ELSE writes
                          /\ arg' = [arg EXCEPT ![s] = t]
                          /\ gw' = [gw EXCEPT ![s] = Answer(ok, r.calls)]
                          /\ IF r.raised
                             THEN /\ ui' = [ui EXCEPT ![s] = {"editor", "exception"}]
                                  /\ pc' = [pc EXCEPT ![s] = "crashed"]
                                  /\ UNCHANGED out
                             ELSE /\ ui' = [ui EXCEPT ![s] =
                                              {"editor"} \cup r.shown
                                              \cup IF menu[s] = "Games" THEN {} ELSE {"metric"}]
                                  /\ pc' = [pc EXCEPT ![s] = "done"]
                                  /\ out' = [out EXCEPT ![s] = PageMetrics(menu[s], t)]
                     ELSE /\ ui' = [ui EXCEPT ![s] =
                                      {"editor"} \cup IF menu[s] = "Games" THEN {} ELSE {"metric"}]
                          /\ pc' = [pc EXCEPT ![s] = "done"]
                          /\ out' = [out EXCEPT ![s] = PageMetrics(menu[s], t)]
                          /\ UNCHANGED <<ws, arg, gw, writes>>
    /\ UNCHANGED <<menu, df, base, budget>>

\* the user changes a cell, adds a row or deletes one in the editor
UserEdit(s, e) ==
    /\ pc[s] = "done"
    /\ "editor" \in ui[s]
    /\ e.op = "add" => Len(edits[s].result.rows) < MaxRows
    /\ ApplyEdit(edits[s].result, e) # edits[s].result
    /\ edits' = [edits EXCEPT ![s].result = ApplyEdit(@, e)]
    /\ UNCHANGED <<ws, menu, pc, df, edited, button, arg, gw, ui, out, budget, base, writes>>

\* pd.concat([d, new_data], ignore_index=True) with a one-row new_data
concat(d, new_cols, new_row) ==
    LET cols == d.cols \o SelectSeq(new_cols, LAMBDA c : c \notin Range(d.cols))
        fit(r) == [c \in Range(cols) |-> IF c \in DOMAIN r THEN r[c] ELSE NaN]
    IN DataFrame(cols, [i \in 1..Len(d.rows) |-> fit(d.rows[i])] \o <<fit(new_row)>>)

\* the row the feedback form builds from its three inputs
FeedbackRow(name, rating, comments) ==
    [Name |-> IF name # "" THEN Txt(name) ELSE Txt("Anonymous"),
     Rating |-> Num(rating),
     Comments |-> Txt(comments)]

\* Feedback: the page after its load
FeedbackPage(s, submit, name, rating, comments, ok) ==
    /\ pc[s] = "loaded"
    /\ menu[s] = "Feedback"
    /\ LET df_feed == df[s]["Feedback"]
           updated_df == concat(df_feed, <<"Name", "Rating", "Comments">>,
                                FeedbackRow(name, rating, comments))
           r == save_data(ws, "Feedback", updated_df, ok)
           shown == IF df_feed # NoneDF /\ ~empty(df_feed) THEN {"form", "dataframe"}
                    ELSE {"form"}
       IN /\ submit /\ df_feed # NoneDF => Len(df_feed.rows) < MaxRows /\ writes < MaxWrites
          /\ button' = [button EXCEPT ![s] = submit]
          /\ IF submit /\ df_feed # NoneDF
             THEN /\ ws' = r.ws
                  /\ writes' = IF ok THEN writes + 1 ELSE writes
                  /\ arg' = [arg EXCEPT ![s] = updated_df]
                  /\ gw' = [gw EXCEPT ![s] = Answer(ok, r.calls)]
                  /\ IF r.raised
                     THEN /\ ui' = [ui EXCEPT ![s] = {"form", "exception"}]
                          /\ pc' = [pc EXCEPT ![s] = "crashed"]
                     ELSE /\ ui' = [ui EXCEPT ![s] = shown \cup r.shown]
                          /\ pc' = [pc EXCEPT ![s] = "done"]
             ELSE /\ ui' = [ui EXCEPT ![s] = shown \cup IF submit THEN {"error"} ELSE {}]
                  /\ pc' = [pc EXCEPT ![s] = "done"]
                  /\ UNCHANGED <<ws, arg, gw, writes>>
    /\ UNCHANGED <<menu, df, edits, edited, out, budget, base>>

\* Event, Gallery, Invitations: no worksheet is read or written
StaticPage(s) ==
    /\ Resting(s)
    /\ PageTabs(menu[s]) = {}
    /\ pc' = [pc EXCEPT ![s] = "done"]
    /\ ui' = [ui EXCEPT ![s] = {"static"}]
    /\ button' = [button EXCEPT ![s] = FALSE]
    /\ arg' = [arg EXCEPT ![s] = Unset]
    /\ gw' = [gw EXCEPT ![s] = NotCalled]
    /\ edited' = [edited EXCEPT ![s] = Unset]
    /\ out' = [out EXCEPT ![s] = NoOut]
    /\ df' = [df EXCEPT ![s] = [t \in Tabs |-> Unset]]
    /\ UNCHANGED <<ws, menu, edits, budget, base, writes>>

\* Budget: the page after its three loads
BudgetPage(s, clicked, ok) ==
    /\ pc[s] = "loaded"
    /\ menu[s] = "Budget"
    /\ LET df_food == df[s]["Food"]
           df_decor == df[s]["Decor"]
           df_budget == df[s]["Budget_Config"]
       IN IF df_food = NoneDF \/ df_budget = NoneDF
          THEN /\ ui' = [ui EXCEPT ![s] = {"error"}]
               /\ pc' = [pc EXCEPT ![s] = "stopped"]
               /\ UNCHANGED <<ws, edits, edited, button, arg, gw, budget, writes>>
          ELSE LET real_food_cost == Actual(df_food, "Total")
                   real_decor_cost == IF real_food_cost.k = "raise" THEN Raise
                                      ELSE Actual(df_decor, "Cost")
                   seeded == IF empty(df_budget) THEN SeedBudget ELSE df_budget
                   edited_budget == data_editor(seeded, edits[s])
                   r == save_data(ws, "Budget_Config", edited_budget, ok)
                   o == Overview(edited_budget, real_food_cost, real_decor_cost)
               IN IF real_food_cost.k = "raise" \/ real_decor_cost.k = "raise"
                  THEN /\ ui' = [ui EXCEPT ![s] = {"exception"}]
                       /\ pc' = [pc EXCEPT ![s] = "crashed"]
                       /\ budget' = [budget EXCEPT ![s] =
                                       [NoBudget EXCEPT !.food = real_food_cost,
                                                        !.decor = real_decor_cost]]
                       /\ UNCHANGED <<ws, edits, edited, button, arg, gw, writes>>
                  ELSE /\ clicked => writes < MaxWrites
                       /\ edits' = [edits EXCEPT ![s] = [on |-> seeded, result |-> edited_budget]]
                       /\ edited' = [edited EXCEPT ![s] = edited_budget]
                       /\ button' = [button EXCEPT ![s] = clicked]
                       /\ budget' = [budget EXCEPT ![s] = o]
                       /\ IF clicked
                          THEN /\ ws' = r.ws
                               /\ writes' = IF ok THEN writes + 1 ELSE writes
                               /\ arg' = [arg EXCEPT ![s] = edited_budget]
                               /\ gw' = [gw EXCEPT ![s] = Answer(ok, r.calls)]
                          ELSE UNCHANGED <<ws, writes, arg, gw>>
                       /\ LET shown == {"editor"} \cup (IF clicked THEN r.shown ELSE {})
                                       \cup (IF o.bars # <<>> THEN {"progress"} ELSE {})
                          IN IF (clicked /\ r.raised) \/ Crashed(o)
                             THEN /\ ui' = [ui EXCEPT ![s] = shown \cup {"exception"}]
                                  /\ pc' = [pc EXCEPT ![s] = "crashed"]
                             ELSE /\ ui' = [ui EXCEPT ![s] = shown \cup {"metric"}]
                                  /\ pc' = [pc EXCEPT ![s] = "done"]
    /\ UNCHANGED <<menu, df, out, base>>


(***************************************************************************)
(* Inputs of the sessions                                                  *)
(***************************************************************************)
Form(name, rating, comments) == [name |-> name, rating |-> rating, comments |-> comments]
Forms == {Form("", 5, "Nice"), Form("Ann", 1, "")}

EditOps(page) ==
    CASE page = "Guests" -> {SetCell(1, "Adults", Txt("abc")), AddRow}
      [] page = "Food & Drinks" -> {SetCell(1, "Quantity", Num(0)), AddRow}
      [] page = "Games" -> {SetCell(1, "Winner", Txt("Ann")), DelRow(1)}
      [] page = "Decoration" -> {SetCell(1, "Cost", Num(7)), AddRow}
      [] page = "Budget" -> {SetCell(1, "Limit", Num(0)), SetCell(1, "Manual_Cost", Num(6)),
                             AddRow}
      [] OTHER -> {}

(***************************************************************************)
(* The spreadsheet the sessions start from                                 *)
(***************************************************************************)
GuestsSheet ==
    LET cols == <<"Family Name", "Adults", "Children", "Ages", "Dietary", "RSVP">>
    IN Sheet(cols, <<Row(cols, <<Txt("Lee"), Num(2), Txt("abc"), Blank, Blank, Txt("Yes")>>)>>)

FoodSheet ==
    LET cols == <<"Item", "Owner", "Sourcing", "Price", "Quantity", "Total">>
    IN Sheet(cols, <<Row(cols, <<Txt("Cake"), Txt("Ann"), Txt("Shop"), Num(5), Num(2), Blank>>)>>)

GamesSheet ==
    LET cols == <<"Game Name", "Rules">>
    IN Sheet(cols, <<Row(cols, <<Txt("Tag"), Blank>>)>>)

DecorSheet ==
    LET cols == <<"Item", "Theme", "Status", "Cost">>
    IN Sheet(cols, <<Row(cols, <<Txt("Balloon"), Blank, Txt("To Buy"), Num(3)>>)>>)

BudgetSheet == Sheet(<<>>, <<>>)

FeedbackSheet == Sheet(<<"Name", "Rating", "Comments">>, <<>>)

Workbook ==
    [t \in Tabs |->
        CASE t = "Guests" -> GuestsSheet
          [] t = "Food" -> FoodSheet
          [] t = "Games" -> GamesSheet
          [] t = "Decor" -> DecorSheet
          [] t = "Budget_Config" -> BudgetSheet
          [] t = "Feedback" -> FeedbackSheet]

Without(w, missing) == [t \in Tabs |-> IF t \in missing THEN NoSheet ELSE w[t]]

SessionInit ==
    /\ pc = [s \in Sessions |-> "idle"]
    /\ df = [s \in Sessions |-> [t \in Tabs |-> Unset]]
    /\ edits = [s \in Sessions |-> NoEdits]
    /\ edited = [s \in Sessions |-> Unset]
    /\ button = [s \in Sessions |-> FALSE]
    /\ arg = [s \in Sessions |-> Unset]
    /\ gw = [s \in Sessions |-> NotCalled]
    /\ ui = [s \in Sessions |-> {}]
    /\ out = [s \in Sessions |-> NoOut]
    /\ budget = [s \in Sessions |-> NoBudget]
    /\ base = [s \in Sessions |-> ws]
    /\ writes = 0

(***************************************************************************)
(* Spec: two sessions on the same page, from the workbook above or from    *)
(* one that lacks the page's worksheet                                     *)
(***************************************************************************)
SharedPages == {"Guests", "Feedback", "Event"}

Init ==
    /\ \E p \in SharedPages :
          /\ menu = [s \in Sessions |-> p]
          /\ ws \in {Workbook, Without(Workbook, PageTabs(p))}
    /\ SessionInit

Next ==
    \E s \in Sessions :
        \/ Load(s)
        \/ \E clicked \in BOOLEAN, ok \in BOOLEAN : EditorPage(s, clicked, ok)
        \/ \E e \in EditOps(menu[s]) : UserEdit(s, e)
        \/ \E submit \in BOOLEAN, f \in Forms, ok \in BOOLEAN :
              FeedbackPage(s, submit, f.name, f.rating, f.comments, ok)
        \/ StaticPage(s)

Spec == Init /\ [][Next]_vars

(***************************************************************************)
(* SpecSolo: one session on any page, over worksheets of many shapes       *)
(***************************************************************************)
SeqsUpTo(S, n) == UNION {[1..k -> S] : k \in 0..n}

Sheets(cols, rowvals) ==
    {Sheet(cols, [i \in 1..Len(q) |-> Row(cols, q[i])]) : q \in SeqsUpTo(rowvals, MaxRows)}

GuestsSheets ==
    Sheets(<<"Family Name", "Adults", "Children", "Ages", "Dietary", "RSVP">>,
           {<<Txt("Lee"), Num(2), Txt("abc"), Blank, Blank, Txt("Yes")>>,
            <<Txt("Kim"), Txt("3"), Blank, Blank, Txt("Vegan"), Blank>>})
    \cup Sheets(<<"Family Name", "Adults", "Table">>,
                {<<Txt("Lee"), Num(2), Num(4)>>})
    \cup {Sheet(<<>>, <<>>), NoSheet}

FoodSheets ==
    Sheets(<<"Item", "Price", "Quantity", "Total">>,
           {<<Txt("Cake"), Num(5), Num(2), Blank>>,
            <<Txt("Tea"), Num(5), Num(0), Num(7)>>,
            <<Txt("Ice"), Num(5), Num(-1), Num(3)>>,
            <<Txt("Nuts"), Txt("abc"), Num(2), Num(7)>>,
            <<Txt("Jam"), Txt("4"), Txt("2"), Txt("abc")>>,
            <<Txt("Pie"), Blank, Num(2), Num(-1)>>})
    \cup Sheets(<<"Item", "Quantity", "Price">>, {<<Txt("Cake"), Num(2), Num(5)>>})
    \cup {Sheet(<<>>, <<>>), NoSheet}

GamesSheets ==
    Sheets(<<"Game Name", "Rules">>, {<<Txt("Tag"), Blank>>})
    \cup Sheets(<<"Winner", "Game Name", "Rules", "Props Needed">>,
                {<<Blank, Txt("Tag"), Txt("Run"), Blank>>})
    \cup {Sheet(<<>>, <<>>), NoSheet}

DecorSheets ==
    Sheets(<<"Item", "Theme", "Status", "Cost">>,
           {<<Txt("Balloon"), Blank, Txt("To Buy"), Num(3)>>,
            <<Txt("Banner"), Blank, Txt("Owned"), Txt("abc")>>})
    \cup Sheets(<<"Item">>, {<<Txt("Balloon")>>})
    \cup {Sheet(<<>>, <<>>), NoSheet}

FeedbackSheets ==
    Sheets(<<"Name", "Rating", "Comments">>, {<<Txt("Bo"), Num(4), Txt("Fun")>>})
    \cup Sheets(<<"Rating", "Name">>, {<<Num(4), Txt("Bo")>>})
    \cup {Sheet(<<>>, <<>>), NoSheet}

\* what the Budget page reads of Food and Decor: the cost column
CostSheets(col, costs) ==
    {Sheet(<<"Item", col>>, <<Row(<<"Item", col>>, <<Txt("a"), c>>)>>) : c \in costs}
    \cup {Sheet(<<"Item", col>>, <<Row(<<"Item", col>>, <<Txt("a"), Num(5)>>),
                                   Row(<<"Item", col>>, <<Txt("b"), Txt("abc")>>)>>),
          NoSheet}

BudgetSheets ==
    Sheets(<<"Category", "Limit", "Manual_Cost">>,
           {<<Txt("Food & Drinks"), Num(4), Num(0)>>,
            <<Txt("Food & Drinks"), Num(0), Num(0)>>,
            <<Txt("Venue"), Num(4), Num(-2)>>,
            <<Txt("Venue"), Txt("abc"), Num(6)>>,
            <<Txt("venue"), Num(9), Blank>>})
    \cup Sheets(<<"Category">>, {<<Txt("Venue")>>})
    \cup {NoSheet}

Books(page) ==
    CASE page = "Guests" -> {[Workbook EXCEPT !["Guests"] = x] : x \in GuestsSheets}
      [] page = "Food & Drinks" -> {[Workbook EXCEPT !["Food"] = x] : x \in FoodSheets}
      [] page = "Games" -> {[Workbook EXCEPT !["Games"] = x] : x \in GamesSheets}
      [] page = "Decoration" -> {[Workbook EXCEPT !["Decor"] = x] : x \in DecorSheets}
      [] page = "Feedback" -> {[Workbook EXCEPT !["Feedback"] = x] : x \in FeedbackSheets}
      [] page = "Budget" ->
           {[Workbook EXCEPT !["Food"] = f, !["Decor"] = d, !["Budget_Config"] = b] :
               f \in CostSheets("Total", {Num(5), Num(-1), Txt("abc"), Blank})
                       \cup {Sheet(<<"Item">>, <<Row(<<"Item">>, <<Txt("a")>>)>>),
                             Sheet(<<>>, <<>>)},
               d \in CostSheets("Cost", {Num(3)}),
               b \in BudgetSheets}
      [] OTHER -> {Workbook}

User == "s1"

InitSolo ==
    /\ \E p \in Pages :
          /\ menu = [s \in Sessions |-> p]
          /\ ws \in Books(p)
    /\ SessionInit

NextSolo ==
    \/ Load(User)
    \/ \E clicked \in BOOLEAN, ok \in BOOLEAN : EditorPage(User, clicked, ok)
    \/ \E e \in EditOps(menu[User]) : UserEdit(User, e)
    \/ \E submit \in BOOLEAN, f \in Forms, ok \in BOOLEAN :
          FeedbackPage(User, submit, f.name, f.rating, f.comments, ok)
    \/ \E clicked \in BOOLEAN, ok \in BOOLEAN : BudgetPage(User, clicked, ok)
    \/ StaticPage(User)

SpecSolo == InitSolo /\ [][NextSolo]_vars

(***************************************************************************)
(* Properties                                                              *)
(***************************************************************************)
\* a worksheet cell as a table holds it after a read
AsRead(c) == IF c = Blank THEN NaN ELSE c

\* the table a page hands to its editor
Rendered(s) ==
    IF menu[s] = "Budget"
    THEN IF empty(df[s]["Budget_Config"]) THEN SeedBudget ELSE df[s]["Budget_Config"]
    ELSE df[s][TabOf(menu[s])]

\* the run of s saved, and what it saved is the table it rendered, unedited
SavedUnedited(s) ==
    /\ menu[s] \in {"Guests", "Games", "Decoration", "Budget"}
    /\ button[s]
    /\ gw[s].result = "ok"
    /\ arg[s] = Rendered(s)

\* C5: for a reachable worksheet with at least one row, load_data returns the
\* same rows in the same order, every original column with every original
\* cell, and each absent required column added with None in every row.
LoadIsAdditive ==
    \A s \in Sessions : \A t \in PageTabs(menu[s]) :
        (df[s][t] # Unset /\ base[s][t].exists /\ Len(base[s][t].rows) >= 1) =>
            LET sheet == base[s][t]
                d == df[s][t]
                req == RequiredCols(menu[s], t)
            IN /\ d.st = "df"
               /\ Len(d.rows) = Len(sheet.rows)
               /\ SubSeq(d.cols, 1, Len(sheet.cols)) = sheet.cols
               /\ Range(d.cols) = Range(sheet.cols) \cup Range(req)
               /\ Len(d.cols) = Cardinality(Range(d.cols))
               /\ \A i \in 1..Len(sheet.rows) :
                     /\ DOMAIN d.rows[i] = Range(d.cols)
                     /\ \A c \in Range(sheet.cols) : d.rows[i][c] = AsRead(sheet.rows[i][c])
                     /\ \A c \in Range(req) \ Range(sheet.cols) : d.rows[i][c] = PyNone

\* a load of a worksheet with rows that lacks a required column and has a
\* column of its own
LoadIsAdditiveWitness ==
    \E s \in Sessions : \E t \in PageTabs(menu[s]) :
        /\ pc[s] = "loaded"
        /\ Len(base[s][t].rows) >= 1
        /\ Range(RequiredCols(menu[s], t)) \ Range(base[s][t].cols) # {}
        /\ Range(base[s][t].cols) \ Range(RequiredCols(menu[s], t)) # {}
        /\ Len(df[s][t].cols) > Len(base[s][t].cols)

\* C4 as stated: loading a worksheet and saving the unedited table leaves the
\* worksheet exactly as it was, whatever its columns and rows.
RoundTripAlways ==
    \A s \in Sessions :
        SavedUnedited(s) => ws[TabOf(menu[s])] = base[s][TabOf(menu[s])]

\* the worksheets load_data returns as they are
LoadsAsIs(s) ==
    LET sheet == base[s][TabOf(menu[s])]
        req == RequiredCols(menu[s], TabOf(menu[s]))
    IN \/ Len(sheet.rows) >= 1 /\ Range(req) \subseteq Range(sheet.cols)
       \/ Len(sheet.rows) = 0 /\ sheet.cols = req /\ menu[s] # "Budget"

\* C4 amended: the round trip leaves the worksheet as it was when the
\* worksheet has rows and every required column, or has no rows and exactly
\* the required columns as its header on a page other than Budget.
RoundTripWhenComplete ==
    \A s \in Sessions :
        SavedUnedited(s) /\ LoadsAsIs(s) => ws[TabOf(menu[s])] = base[s][TabOf(menu[s])]

\* an unedited save of a worksheet with rows and every required column
RoundTripWitness ==
    \E s \in Sessions :
        /\ SavedUnedited(s)
        /\ Len(base[s][TabOf(menu[s])].rows) >= 1
        /\ LoadsAsIs(s)
        /\ ws[TabOf(menu[s])] = base[s][TabOf(menu[s])]

\* the page part of a run of s: from its load to its end
PageStep(s) == pc[s] = "loaded" /\ pc'[s] # "loaded"

RetryTable(page, sheets, widget) ==
    LET tab == TabOf(page)
        d == load_data(sheets, tab, RequiredCols(page, tab))
        r == IF page = "Budget" /\ empty(d) THEN SeedBudget ELSE d
        e == data_editor(r, widget)
    IN IF page = "Food & Drinks" THEN CalculateTotals(e) ELSE e

LastWriteWins ==
    [][/\ \A s \in Sessions :
             (PageStep(s) /\ gw'[s].result = "ok") =>
                 /\ ws' = [ws EXCEPT ![TabOf(menu[s])] = conn_update(arg'[s])]
                 /\ menu[s] \in {"Guests", "Games", "Decoration"} =>
                       arg'[s] = data_editor(df[s][TabOf(menu[s])], edits[s])
       /\ ws' # ws => \E s \in Sessions : PageStep(s) /\ button'[s] /\ gw'[s].result = "ok"]_vars

\* two sessions loaded the same Guests worksheet, each edited it and saved:
\* the worksheet is the table of one of them and lacks the edit of the other
LastWriteWinsWitness ==
    \E s1, s2 \in Sessions :
        /\ s1 # s2
        /\ menu[s1] = "Guests"
        /\ gw[s1].result = "ok" /\ gw[s2].result = "ok"
        /\ base[s1]["Guests"] = base[s2]["Guests"]
        /\ arg[s1] # df[s1]["Guests"] /\ arg[s2] # df[s2]["Guests"]
        /\ ws["Guests"] = conn_update(arg[s2])
        /\ ws["Guests"] # conn_update(arg[s1])
        /\ ws["Guests"] # base[s1]["Guests"]

\* C2: every successful submit keeps the rows the Feedback worksheet holds,
\* unchanged and in order, and adds exactly one row at the end.
FeedbackAppendOnly ==
    [][\A s \in Sessions :
          (PageStep(s) /\ menu[s] = "Feedback" /\ gw'[s].result = "ok") =>
              LET old == ws["Feedback"].rows
                  new == ws'["Feedback"].rows
              IN /\ Len(new) = Len(old) + 1
                 /\ \A i \in 1..Len(old) : new[i] = old[i]
                 /\ new[Len(new)]["Name"] # Blank]_vars

\* C1: when a load of the page returned None, the run shows the blocking
\* error and nothing else, saves nothing and raises nothing.
MissingWorksheetBlocks ==
    \A s \in Sessions :
        (pc[s] \in {"done", "stopped", "crashed"}
         /\ \E t \in PageTabs(menu[s]) : df[s][t] = NoneDF) =>
            /\ pc[s] = "stopped"
            /\ ui[s] = {"error"}
            /\ arg[s] = Unset

\* C3: the Budget page's actuals over Food 'Total' and Decor 'Cost' are
\* numbers whatever the cells hold.
AggregationsAreNumbers ==
    \A s \in Sessions :
        (menu[s] = "Budget" /\ pc[s] \in {"done", "crashed"}
         /\ \A t \in PageTabs(menu[s]) : df[s][t].st = "df") =>
            /\ budget[s].food.k = "num"
            /\ budget[s].decor.k = "num"

\* C9: every lookup get_limit / get_manual made yields a number.
LookupsAreNumbers ==
    \A s \in Sessions :
        \A i \in DOMAIN budget[s].limits : budget[s].limits[i].k = "num"

\* C10: every ratio show_bar computed lies in [0, 1].
RatioInUnit ==
    \A s \in Sessions :
        \A i \in DOMAIN budget[s].bars :
            budget[s].bars[i].ratio.k = "ratio" => InUnit(budget[s].bars[i].ratio)

====
